---- MODULE Spec2Model ----
(***************************************************************************)
(* State-machine model of documentation/examples/py/iso-19139-to-dcat-ap.py *)
(* (class XSLTTransformer: __init__ and transform).                         *)
(*                                                                          *)
(* Text is a sequence of code points, bytes a sequence of 0..255, a path a  *)
(* sequence of components whose first component is "/" when it is absolute, *)
(* a stylesheet reference a sequence whose first component is the scheme     *)
(* when it is a URL.  An optional value is <<>> (None) or <<v>>.            *)
(* The XSLT engine (saxonche), the network (urlretrieve) and the file       *)
(* system are the environment: their outcomes are chosen with \E.           *)
(***************************************************************************)
EXTENDS Integers, Sequences, FiniteSets, TLC

\* ------------------------------------------------------------------ bounds
MaxOps == 3      \* constructions + transform calls in one behaviour
MaxOver == 1     \* input lengths range up to PreviewLen + MaxOver
MaxMsgs == 1     \* engine error messages reported by one execution

\* ------------------------------------------------------- program constants
PreviewLen == 1000

None == <<>>
Some(v) == <<v>>

\* ------------------------------------------------------------------- paths
Cwd == <<"/", "work">>
ScriptDir == <<"/", "app">>
LOCAL_XSL_PATH == ScriptDir \o <<"iso19139-to-geodcatap.xsl">>
LocalFiles == { <<"/", "work", "style.xsl">> }

UrlRefs == { <<"https://", "host", "a.xsl">>, <<"http://", "host", "a.xsl">> }
PathRefs == { <<"style.xsl">>, <<".", "style.xsl">>, <<"sub", "..", "style.xsl">>,
              <<"/", "work", "style.xsl">>, <<"missing.xsl">>,
              <<"ftp://", "host", "a.xsl">>, <<>> }
StylesheetRefs == UrlRefs \cup PathRefs

StartsWith(s, prefix) == Len(s) > 0 /\ s[1] = prefix
IsUrl(xslt_file) == StartsWith(xslt_file, "http://") \/ StartsWith(xslt_file, "https://")

IsAbs(p) == StartsWith(p, "/")

RECURSIVE NormFrom(_, _)
NormFrom(acc, rest) ==
    IF rest = <<>> THEN acc
    ELSE LET c == Head(rest) IN
         IF c = "." \/ c = "/" THEN NormFrom(acc, Tail(rest))
         ELSE IF c = ".." THEN
              NormFrom(IF Len(acc) > 1 THEN SubSeq(acc, 1, Len(acc) - 1) ELSE acc, Tail(rest))
         ELSE NormFrom(Append(acc, c), Tail(rest))

\* the path as given
Abspath_AsGiven(p) == p
\* os.path.abspath: join with the working directory unless absolute, then normpath
Abspath(p) == IF IsAbs(p) THEN NormFrom(<<"/">>, p) ELSE NormFrom(<<"/">>, Cwd \o p)

\* os.path.dirname of a normalised path
Dirname(p) == IF Len(p) > 1 THEN SubSeq(p, 1, Len(p) - 1) ELSE p

\* files that os.path.isfile can see: the local stylesheets and the cache file
Files(c) == LocalFiles \cup (IF c = "none" THEN {} ELSE {LOCAL_XSL_PATH})
\* os.path.isfile: the system resolves the name against the working directory
Isfile(c, p) == NormFrom(<<"/">>, IF IsAbs(p) THEN p ELSE Cwd \o p) \in Files(c)

\* -------------------------------------------------------------------- text
Chr(i) == 97 + (i % 3)
Text(n) == [i \in 1..n |-> Chr(i)]
InputLens == {0, 2} \cup ((PreviewLen - 1)..(PreviewLen + MaxOver))
StrInputs == { [kind |-> "str", data |-> Text(n)] : n \in InputLens }
BytesInputs == { [kind |-> "bytes", data |-> b] : b \in { <<60, 195, 169, 62>>, <<60, 255, 62>> } }
Inputs == StrInputs \cup BytesInputs
Results == { <<114>>, <<114, 100>> }
ErrorLists == { [i \in 1..n |-> i] : n \in 0..MaxMsgs }

Min(a, b) == IF a < b THEN a ELSE b
\* the slice without its bound
Preview_Whole(data) == data
\* xml_data[:1000]
Preview(data) == SubSeq(data, 1, Min(Len(data), PreviewLen))

IsCont(b) == b >= 128 /\ b <= 191
\* number of bytes of the UTF-8 sequence that starts bs (0: ill-formed)
SeqLen(bs) ==
    LET b == bs[1]
        n == Len(bs)
    IN  IF b <= 127 THEN 1
        ELSE IF b >= 194 /\ b <= 223 THEN (IF n >= 2 /\ IsCont(bs[2]) THEN 2 ELSE 0)
        ELSE IF b >= 224 /\ b <= 239 THEN
             (IF n >= 3 /\ IsCont(bs[2]) /\ IsCont(bs[3])
                 /\ (b = 224 => bs[2] >= 160) /\ (b = 237 => bs[2] <= 159) THEN 3 ELSE 0)
        ELSE IF b >= 240 /\ b <= 244 THEN
             (IF n >= 4 /\ IsCont(bs[2]) /\ IsCont(bs[3]) /\ IsCont(bs[4])
                 /\ (b = 240 => bs[2] >= 144) /\ (b = 244 => bs[2] <= 143) THEN 4 ELSE 0)
        ELSE 0
CodePoint(bs, k) ==
    IF k = 1 THEN bs[1]
    ELSE IF k = 2 THEN (bs[1] - 192) * 64 + (bs[2] - 128)
    ELSE IF k = 3 THEN (bs[1] - 224) * 4096 + (bs[2] - 128) * 64 + (bs[3] - 128)
    ELSE (bs[1] - 240) * 262144 + (bs[2] - 128) * 4096 + (bs[3] - 128) * 64 + (bs[4] - 128)

RECURSIVE DecodeFrom(_, _)
DecodeFrom(acc, bs) ==
    IF bs = <<>> THEN [ok |-> TRUE, text |-> acc]
    ELSE LET k == SeqLen(bs) IN
         IF k = 0 THEN [ok |-> FALSE, text |-> acc]
         ELSE DecodeFrom(Append(acc, CodePoint(bs, k)), SubSeq(bs, k + 1, Len(bs)))
\* bytes.decode('utf-8')
Decode(bs) == DecodeFrom(<<>>, bs)

\* -------------------------------------------------------------- exceptions
Exc(type, msg) == [type |-> type, msg |-> msg]
FileNotFoundError == Exc("FileNotFoundError", "The file does not exist.")
URLError == Exc("URLError", "urlopen error")
ContentTooShortError == Exc("ContentTooShortError", "retrieval incomplete")
UnicodeDecodeError == Exc("UnicodeDecodeError", "invalid start byte")
UnboundLocalError == Exc("UnboundLocalError", "output_dir referenced before assignment")
OSErrorMkdir == Exc("OSError", "makedirs failed")
OSErrorOpen == Exc("OSError", "no such directory")
OSErrorWrite == Exc("OSError", "write failed")
SaxonSetupError == Exc("PySaxonApiError", "engine setup failed")
SaxonApiError == Exc("PySaxonApiError", "transform failed")
RuntimeError == Exc("RuntimeError", "Error in XSLT transformation")

\* ------------------------------------------------------------------- state
VARIABLES
    cache,        \* file at LOCAL_XSL_PATH: "none", "partial" or "full"
    fetches,      \* urlretrieve calls made
    stored,       \* urlretrieve calls that created the file at LOCAL_XSL_PATH
    handles,      \* PySaxonProcessor instances created
    transformer,  \* the instance: None or Some([xslt_path, processor, xslt_processor])
    lastCtor,     \* outcome of the last construction (fetched: it called urlretrieve)
    outDir,       \* the output directory exists
    input_raw,    \* output/input_raw.xml
    rdf,          \* output/transformed_output.rdf
    errlog,       \* output/transformation_error.log
    temps,        \* temporary source files created
    pc,           \* position inside transform, "idle" between calls
    xml_data,     \* local of transform
    output_dir,   \* local of transform is bound
    result,       \* local of transform
    exc,          \* exception being handled / propagated
    origExc,      \* first exception raised inside the try body of this call
    trace,        \* steps this call has completed, in order
    logged,       \* messages passed to log.error in the error loop of this call
    written,      \* files of the output directory this call has written
    rdfAtStart,   \* content of transformed_output.rdf when this call started
    lastCall,     \* outcome of the last finished call
    lastGood,     \* result text of the most recent call that returned
    ops           \* operations started

vars == <<cache, fetches, stored, handles, transformer, lastCtor, outDir, input_raw,
          rdf, errlog, temps, pc, xml_data, output_dir, result, exc, origExc, trace,
          logged, written, rdfAtStart, lastCall, lastGood, ops>>

fsVars == <<outDir, input_raw, rdf, errlog, temps>>
ctorVars == <<cache, fetches, stored, lastCtor>>
callVars == <<pc, xml_data, output_dir, result, exc, origExc, trace, logged, written,
              rdfAtStart, lastCall, lastGood>>

NoInput == [kind |-> "str", data |-> <<>>]

\* a processor as new_xslt30_processor() returns it
NewXslt30Processor(id) ==
    [id |-> id, cwd |-> None, resolve_external |-> "unset",
     exception_occurred |-> FALSE, errors |-> <<>>]

Init ==
    /\ cache = "none" /\ fetches = 0 /\ stored = 0 /\ handles = 0
    /\ transformer = None
    /\ lastCtor = [status |-> "none", exc |-> None, xslt_file |-> <<>>, fetched |-> FALSE]
    /\ outDir = FALSE /\ input_raw = None /\ rdf = None /\ errlog = None /\ temps = 0
    /\ pc = "idle" /\ xml_data = NoInput /\ output_dir = FALSE /\ result = None
    /\ exc = None /\ origExc = None /\ trace = <<>> /\ logged = <<>> /\ written = {}
    /\ rdfAtStart = None
    /\ lastCall = [status |-> "none", value |-> None, exc |-> None]
    /\ lastGood = None
    /\ ops = 0

\* ------------------------------------------------------------- construction
DownloadOutcomes == {"ok", "refused", "partial"}

\* the download without the isfile test
NeedsDownload_Always(c) == TRUE
\* line 46
NeedsDownload(c) == ~Isfile(c, LOCAL_XSL_PATH)

\* lines 44-52: the resolved path, the exception, and what the download did
Resolve(xslt_file, c, d) ==
    IF IsUrl(xslt_file) THEN
        IF NeedsDownload(c) THEN
            [path |-> LOCAL_XSL_PATH, fetched |-> TRUE,
             cache |-> IF d = "ok" THEN "full" ELSE IF d = "partial" THEN "partial" ELSE c,
             created |-> d # "refused",
             exc |-> IF d = "ok" THEN None
                     ELSE IF d = "partial" THEN Some(ContentTooShortError) ELSE Some(URLError)]
        ELSE [path |-> LOCAL_XSL_PATH, fetched |-> FALSE, cache |-> c, created |-> FALSE,
              exc |-> None]
    ELSE IF ~Isfile(c, xslt_file) THEN
        [path |-> <<>>, fetched |-> FALSE, cache |-> c, created |-> FALSE,
         exc |-> Some(FileNotFoundError)]
    ELSE [path |-> Abspath(xslt_file), fetched |-> FALSE, cache |-> c, created |-> FALSE,
          exc |-> None]

\* XSLTTransformer.__init__
XSLTTransformer(xslt_file, d) ==
    /\ pc = "idle" /\ ops < MaxOps
    /\ ops' = ops + 1
    /\ LET r == Resolve(xslt_file, cache, d) IN
        /\ cache' = r.cache
        /\ fetches' = IF r.fetched THEN fetches + 1 ELSE fetches
        /\ stored' = IF r.created THEN stored + 1 ELSE stored
        /\ IF r.exc # None
           THEN /\ lastCtor' = [status |-> "raised", exc |-> r.exc, xslt_file |-> xslt_file,
                             fetched |-> r.fetched]
                /\ UNCHANGED <<transformer, handles>>
           ELSE /\ lastCtor' = [status |-> "ok", exc |-> None, xslt_file |-> xslt_file,
                             fetched |-> r.fetched]
                /\ handles' = handles + 1
                /\ transformer' = Some([xslt_path |-> r.path, processor |-> handles + 1,
                                         xslt_processor |-> NewXslt30Processor(handles + 1)])
    /\ UNCHANGED <<fsVars, callVars>>

Construct ==
    \E xslt_file \in StylesheetRefs :
        \E d \in (IF IsUrl(xslt_file) /\ cache = "none" THEN DownloadOutcomes ELSE {"ok"}) :
            XSLTTransformer(xslt_file, d)

\* ---------------------------------------------------------------- transform
T == transformer[1]

\* the try body without the write of input_raw.xml
Order_NoRaw == <<"makedirs", "configure", "write_temp", "exec1", "set_param", "exec2",
                 "check">>
\* the try body with the processor set up after the first execution
Order_ConfigureLate == <<"makedirs", "write_raw", "write_temp", "exec1", "configure",
                         "set_param", "exec2", "check">>
\* the statements of the try body in program order (lines 67-104)
Order == <<"makedirs", "write_raw", "configure", "write_temp", "exec1", "set_param",
           "exec2", "check">>
After(p) == Order[(CHOOSE i \in 1..(Len(Order) - 1) : Order[i] = p) + 1]

\* what a file can hold after open(path, 'w') or the write after it failed: its old
\* content (open failed), or a proper prefix of text (the empty one, the longest one)
FailedWrite(old, text) ==
    {old} \cup { Some(SubSeq(text, 1, k)) : k \in {0, Len(text) - 1} \cap (0..(Len(text) - 1)) }

\* open(path, 'a') followed by write(text)
FileAppend(old, text) == IF old = None THEN Some(text) ELSE Some(old[1] \o text)

\* open(path, 'w') followed by write(text): the file holds text
FileWrite(old, text) == Some(text)
Step(name) == trace' = Append(trace, name)
\* an exception raised inside the try body: control goes to the except clause
Raise(e) == pc' = "handler" /\ exc' = Some(e) /\ origExc' = Some(e)

\* lines 61-64: entry, bytes are decoded as UTF-8
Transform(data) ==
    /\ pc = "idle" /\ transformer # None /\ ops < MaxOps
    /\ ops' = ops + 1
    /\ trace' = <<>> /\ logged' = <<>> /\ written' = {} /\ rdfAtStart' = rdf
    /\ output_dir' = FALSE /\ result' = None
    /\ lastCall' = [status |-> "running", value |-> None, exc |-> None]
    /\ IF data.kind = "bytes"
       THEN LET d == Decode(data.data) IN
            IF d.ok
            THEN /\ xml_data' = [kind |-> "str", data |-> d.text]
                 /\ pc' = Order[1] /\ exc' = None /\ origExc' = None
            ELSE /\ xml_data' = data
                 /\ Raise(UnicodeDecodeError)
       ELSE /\ xml_data' = data
            /\ pc' = Order[1] /\ exc' = None /\ origExc' = None
    /\ UNCHANGED <<ctorVars, fsVars, handles, transformer, lastGood>>

\* lines 67-68: output_dir is bound, then os.makedirs(output_dir, exist_ok=True)
Makedirs ==
    /\ pc = "makedirs"
    /\ output_dir' = TRUE
    /\ \/ /\ outDir' = TRUE /\ pc' = After(pc) /\ Step("makedirs")
          /\ UNCHANGED <<exc, origExc>>
       \/ /\ ~outDir /\ Raise(OSErrorMkdir)
          /\ UNCHANGED <<outDir, trace>>
    /\ UNCHANGED <<ctorVars, handles, transformer, input_raw, rdf, errlog, temps, xml_data,
                   result, logged, written, rdfAtStart, lastCall, lastGood, ops>>

\* lines 71-73: input_raw.xml
WriteRaw ==
    /\ pc = "write_raw"
    /\ \/ /\ input_raw' = FileWrite(input_raw, xml_data.data) /\ written' = written \cup {"input_raw.xml"}
          /\ pc' = After(pc) /\ Step("write_raw")
          /\ UNCHANGED <<exc, origExc>>
       \/ /\ input_raw' \in FailedWrite(input_raw, xml_data.data)
          /\ Raise(OSErrorWrite)
          /\ UNCHANGED <<written, trace>>
    /\ UNCHANGED <<ctorVars, handles, transformer, outDir, rdf, errlog, temps, xml_data,
                   output_dir, result, logged, rdfAtStart, lastCall, lastGood, ops>>

\* lines 80-81 without set_cwd
Configured_NoCwd(xp, xslt_path) == [xp EXCEPT !.resolve_external = "false"]
\* lines 80-81 applied to a processor
Configured(xp, xslt_path) ==
    [xp EXCEPT !.resolve_external = "false", !.cwd = Some(Dirname(xslt_path))]

\* lines 76-81: a new processor, resolve-external = false, cwd = directory of the stylesheet
Configure ==
    /\ pc = "configure"
    /\ \/ /\ handles' = handles + 1
          /\ transformer' = Some([T EXCEPT !.processor = handles + 1,
                 !.xslt_processor = Configured(NewXslt30Processor(handles + 1), T.xslt_path)])
          /\ pc' = After(pc) /\ Step("configure")
          /\ UNCHANGED <<exc, origExc>>
       \/ /\ Raise(SaxonSetupError)              \* line 76 raises
          /\ UNCHANGED <<handles, transformer, trace>>
       \/ /\ handles' = handles + 1              \* line 80 raises
          /\ transformer' = Some([T EXCEPT !.processor = handles + 1,
                 !.xslt_processor = NewXslt30Processor(handles + 1)])
          /\ Raise(SaxonSetupError)
          /\ UNCHANGED trace
    /\ UNCHANGED <<ctorVars, fsVars, xml_data, output_dir, result, logged, written,
                   rdfAtStart, lastCall, lastGood, ops>>

\* lines 84-86: the temporary source file (delete=False)
WriteTemp ==
    /\ pc = "write_temp"
    /\ \/ /\ temps' = temps + 1 /\ pc' = After(pc) /\ Step("write_temp")
          /\ UNCHANGED <<exc, origExc>>
       \/ /\ temps' \in {temps, temps + 1}
          /\ Raise(OSErrorWrite)
          /\ UNCHANGED trace
    /\ UNCHANGED <<ctorVars, handles, transformer, outDir, input_raw, rdf, errlog, xml_data,
                   output_dir, result, logged, written, rdfAtStart, lastCall, lastGood, ops>>

\* lines 91-94 (here = "exec1") and 99-102 (here = "exec2"): transform_to_string.
\* The engine returns text, or records errors on the processor (they stay pending
\* on it), or raises.
Exec(here) ==
    /\ pc = here
    /\ \/ \E r \in Results :
            /\ result' = Some(r) /\ pc' = After(pc) /\ Step("exec")
            /\ UNCHANGED <<transformer, exc, origExc>>
       \/ \E errs \in ErrorLists :
            /\ result' = None /\ pc' = After(pc) /\ Step("exec")
            /\ transformer' = Some([T EXCEPT !.xslt_processor.exception_occurred = TRUE,
                                             !.xslt_processor.errors = @ \o errs])
            /\ UNCHANGED <<exc, origExc>>
       \/ /\ Raise(SaxonApiError) /\ Step("exec")
          /\ UNCHANGED <<transformer, result>>
    /\ UNCHANGED <<ctorVars, fsVars, handles, xml_data, output_dir, logged, written,
                   rdfAtStart, lastCall, lastGood, ops>>

\* line 97: resolve-external = false again
SetParameter ==
    /\ pc = "set_param"
    /\ transformer' = Some([T EXCEPT !.xslt_processor.resolve_external = "false"])
    /\ pc' = After(pc) /\ Step("set_parameter")
    /\ UNCHANGED <<ctorVars, fsVars, handles, xml_data, output_dir, result, exc, origExc,
                   logged, written, rdfAtStart, lastCall, lastGood, ops>>

\* line 104
CheckException ==
    /\ pc = "check"
    /\ pc' = IF T.xslt_processor.exception_occurred THEN "log_errors" ELSE "write_out"
    /\ UNCHANGED <<ctorVars, fsVars, handles, transformer, xml_data, output_dir, result, exc,
                   origExc, trace, logged, written, rdfAtStart, lastCall, lastGood, ops>>

\* the raise ahead of the loop
LoopDone_Skip(done, errors) == TRUE
\* line 105: every message has been visited
LoopDone(done, errors) == Len(done) >= Len(errors)

\* lines 105-106: one iteration of the loop over get_error_message()
LogError ==
    /\ pc = "log_errors"
    /\ ~LoopDone(logged, T.xslt_processor.errors)
    /\ logged' = Append(logged, T.xslt_processor.errors[Len(logged) + 1])
    /\ UNCHANGED <<ctorVars, fsVars, handles, transformer, pc, xml_data, output_dir, result,
                   exc, origExc, trace, written, rdfAtStart, lastCall, lastGood, ops>>

\* line 107: the loop is over
RaiseRuntimeError ==
    /\ pc = "log_errors"
    /\ LoopDone(logged, T.xslt_processor.errors)
    /\ Raise(RuntimeError)
    /\ UNCHANGED <<ctorVars, fsVars, handles, transformer, xml_data, output_dir, result,
                   trace, logged, written, rdfAtStart, lastCall, lastGood, ops>>

\* lines 110-112: transformed_output.rdf
WriteOutput ==
    /\ pc = "write_out"
    /\ \/ /\ rdf' = FileWrite(rdf, result[1]) /\ written' = written \cup {"transformed_output.rdf"}
          /\ pc' = "return" /\ Step("write_out")
          /\ UNCHANGED <<exc, origExc>>
       \/ /\ rdf' \in FailedWrite(rdf, result[1])
          /\ Raise(OSErrorWrite)
          /\ UNCHANGED <<written, trace>>
    /\ UNCHANGED <<ctorVars, handles, transformer, outDir, input_raw, errlog, temps, xml_data,
                   output_dir, result, logged, rdfAtStart, lastCall, lastGood, ops>>

\* lines 114-115
Return ==
    /\ pc = "return"
    /\ lastCall' = [status |-> "returned", value |-> result, exc |-> None]
    /\ lastGood' = result
    /\ pc' = "idle"
    /\ UNCHANGED <<ctorVars, fsVars, handles, transformer, xml_data, output_dir, result, exc,
                   origExc, trace, logged, written, rdfAtStart, ops>>

\* what lines 122-123 write
ErrorRecord(e, data) == [error |-> e.msg, preview |-> Preview(data), tail |-> "..."]

\* lines 117-124: the except clause.  output_dir is read at line 120: when the
\* failure came before line 67 the name is unbound; when the directory was not
\* created the open at line 121 fails.  Either exception replaces the one caught.
Handler ==
    /\ pc = "handler"
    /\ IF ~output_dir
       THEN /\ exc' = Some(UnboundLocalError)
            /\ UNCHANGED <<errlog, written, trace>>
       ELSE IF ~outDir
       THEN /\ exc' = Some(OSErrorOpen)
            /\ UNCHANGED <<errlog, written, trace>>
       ELSE /\ errlog' = Some(ErrorRecord(exc[1], xml_data.data))
            /\ written' = written \cup {"transformation_error.log"}
            /\ Step("write_log")
            /\ UNCHANGED exc
    /\ lastCall' = [status |-> "raised", value |-> None, exc |-> exc']
    /\ pc' = "idle"
    /\ UNCHANGED <<ctorVars, handles, transformer, outDir, input_raw, rdf, temps, xml_data,
                   output_dir, result, origExc, logged, rdfAtStart, lastGood, ops>>

Call == \E data \in Inputs : Transform(data)
Exec1 == Exec("exec1")
Exec2 == Exec("exec2")

Next ==
    \/ Construct
    \/ Call
    \/ Makedirs
    \/ WriteRaw
    \/ Configure
    \/ WriteTemp
    \/ Exec1
    \/ SetParameter
    \/ Exec2
    \/ CheckException
    \/ LogError
    \/ RaiseRuntimeError
    \/ WriteOutput
    \/ Return
    \/ Handler

Spec == Init /\ [][Next]_vars

\* ================================================================== claims
Finished == pc = "idle" /\ lastCall.status \in {"returned", "raised"}
Returned == pc = "idle" /\ lastCall.status = "returned"
Raised == pc = "idle" /\ lastCall.status = "raised"
\* a step of XSLTTransformer.__init__
CtorStep == pc = "idle" /\ pc' = "idle" /\ ops' = ops + 1
Before(a, b) == \A i \in 1..Len(trace) : trace[i] = b => \E j \in 1..(i - 1) : trace[j] = a
Did(a) == \E i \in 1..Len(trace) : trace[i] = a

\* C1: every call of transform that fails has written transformation_error.log
\* and propagates the very exception that was raised inside the try body.
C1_DiagnosticThenSameException ==
    Raised => /\ "transformation_error.log" \in written
              /\ lastCall.exc = origExc

\* C2: a call that returns hands back the result text and has written, in the
\* output directory, exactly input_raw.xml (the input) and transformed_output.rdf
\* (the result); transformation_error.log is written only by calls that fail.
C2_SuccessWritesExactlyTwoFiles ==
    /\ Returned => /\ lastCall.value # None
                   /\ lastCall.value[1] \in Results
                   /\ written = {"input_raw.xml", "transformed_output.rdf"}
                   /\ input_raw = Some(xml_data.data)
                   /\ rdf = lastCall.value
    /\ "transformation_error.log" \in written => lastCall.status = "raised"
C2_Witness ==
    /\ Returned /\ ~IsUrl(lastCtor.xslt_file) /\ lastCtor.status = "ok"
    /\ errlog = None /\ Len(xml_data.data) > 0

\* C3: a construction from a URL fetches when no file is at the cache path and
\* then stores the download there; when the file is there it fetches nothing and
\* leaves the file alone; the cache file is stored at most once.
C3_DownloadOnce ==
    /\ [](stored <= 1)
    /\ [][(CtorStep /\ IsUrl(lastCtor'.xslt_file)) =>
            IF cache = "none"
            THEN /\ fetches' = fetches + 1
                 /\ lastCtor'.status = "ok" => (cache' = "full" /\ stored' = stored + 1)
            ELSE /\ fetches' = fetches /\ cache' = cache /\ stored' = stored
                 /\ lastCtor'.status = "ok"]_vars
C3_Witness ==
    /\ lastCtor.status = "ok" /\ IsUrl(lastCtor.xslt_file) /\ ~lastCtor.fetched
    /\ cache = "full" /\ fetches = 1 /\ stored = 1

\* C4: a construction from a reference that is no http(s) URL and names no file
\* raises FileNotFoundError, fetches nothing, leaves the cache path alone and
\* creates no processor; from a reference that names the local stylesheet it
\* completes with the absolute path of that file.
MissingRefs == { <<"missing.xsl">>, <<"ftp://", "host", "a.xsl">>, <<>> }
PresentRefs == { <<"style.xsl">>, <<".", "style.xsl">>, <<"sub", "..", "style.xsl">>,
                 <<"/", "work", "style.xsl">> }
C4_LocalReference ==
    [][CtorStep =>
        /\ lastCtor'.xslt_file \in MissingRefs =>
              /\ lastCtor'.status = "raised"
              /\ lastCtor'.exc = Some(FileNotFoundError)
              /\ UNCHANGED <<fetches, stored, cache, handles, transformer>>
        /\ lastCtor'.xslt_file \in PresentRefs =>
              /\ lastCtor'.status = "ok"
              /\ transformer'[1].xslt_path = <<"/", "work", "style.xsl">>
              /\ UNCHANGED <<fetches, stored, cache>>]_vars
C4_Witness ==
    /\ lastCtor.status = "raised" /\ lastCtor.exc = Some(FileNotFoundError)
    /\ lastCtor.xslt_file = <<"missing.xsl">> /\ transformer # None

\* C5: (as stated) when a construction has completed, the processor it holds has
\* its working directory set to the directory of the resolved stylesheet and
\* resolve-external set to false.
C5_ConfiguredAtConstruction ==
    (pc = "idle" /\ lastCtor.status = "ok" /\ lastCall.status = "none") =>
        /\ T.xslt_processor.cwd = Some(Dirname(T.xslt_path))
        /\ T.xslt_processor.resolve_external = "false"
\* C5: (amended) a construction that completes leaves a new processor with no
\* working directory and no resolve-external parameter; whenever transform is
\* about to run the engine, the processor in use has the working directory of the
\* resolved stylesheet and resolve-external false.
C5_ConfiguredBeforeExecution ==
    /\ [](pc \in {"exec1", "exec2"} =>
            /\ T.xslt_processor.cwd = Some(SubSeq(T.xslt_path, 1, Len(T.xslt_path) - 1))
            /\ T.xslt_processor.resolve_external = "false"
            /\ T.xslt_processor.id = handles)
    /\ [][(CtorStep /\ lastCtor'.status = "ok") =>
            /\ transformer'[1].xslt_processor.cwd = None
            /\ transformer'[1].xslt_processor.resolve_external = "unset"
            /\ transformer'[1].xslt_processor.id = handles + 1]_vars
C5_Witness ==
    /\ pc = "exec2" /\ T.xslt_processor.cwd = Some(<<"/", "app">>)
    /\ T.xslt_processor.resolve_external = "false"

\* C6: (as stated) between calls, transformed_output.rdf holds exactly the result
\* text of the most recent call that returned.
C6_FileIsLastResult ==
    (pc = "idle" /\ lastGood # None) => rdf = lastGood
\* C6: (amended) after a call that returns, transformed_output.rdf holds exactly
\* the text that call returned, whatever it held before; a call that fails leaves
\* the file as it found it, except that a call that fails while writing the file
\* may leave it holding a proper prefix of the text it was writing.
C6_FileAfterCall ==
    /\ Returned => (lastCall.value # None /\ rdf = lastCall.value /\ lastGood = lastCall.value)
    /\ Raised => \/ rdf = rdfAtStart
                 \/ /\ origExc = Some(OSErrorWrite) /\ result # None /\ rdf # None
                    /\ Len(rdf[1]) < Len(result[1])
                    /\ rdf[1] = [i \in 1..Len(rdf[1]) |-> result[1][i]]
C6_Witness ==
    /\ Returned /\ rdfAtStart # None /\ rdfAtStart # rdf /\ rdf = lastCall.value

\* C7: when the engine rejects the input, the call raises the engine's error and
\* transformation_error.log holds the text of that error and the input itself
\* when it has at most 1000 characters, its first 1000 characters otherwise.
EngineRejected == origExc \in {Some(SaxonApiError), Some(RuntimeError)}
C7_ErrorLogPreview ==
    (Raised /\ EngineRejected) =>
        /\ lastCall.exc = origExc
        /\ errlog # None
        /\ errlog[1].error = origExc[1].msg
        /\ LET xml == xml_data.data IN
           errlog[1].preview = IF Len(xml) <= 1000 THEN xml ELSE [i \in 1..1000 |-> xml[i]]
C7_Witness ==
    /\ Raised /\ EngineRejected /\ Len(xml_data.data) > PreviewLen
    /\ Len(errlog[1].preview) = PreviewLen

C9_ErrorsLoggedBeforeRaise ==
    /\ (pc = "handler" /\ origExc = Some(RuntimeError)) =>
           (T.xslt_processor.exception_occurred /\ logged = T.xslt_processor.errors)
    /\ (Raised /\ origExc = Some(RuntimeError)) =>
           (rdf = rdfAtStart /\ lastCall.value = None /\ ~Did("write_out"))
    /\ pc \in {"write_out", "return"} => ~T.xslt_processor.exception_occurred
C9_Witness ==
    /\ Raised /\ origExc = Some(RuntimeError) /\ Len(logged) >= 1
    /\ rdfAtStart # None /\ rdf = rdfAtStart

\* C10: a file is at the cache path only if a download completed; hence a
\* construction from a URL that completes holds the complete stylesheet.
C10_CacheOnlyIfComplete ==
    /\ cache # "none" => cache = "full"
    /\ (lastCtor.status = "ok" /\ IsUrl(lastCtor.xslt_file)) => cache = "full"

====
